---- MODULE Spec2Model ----
(***************************************************************************)
(* Model of followup_dashboard.py: the Streamlit follow-up tracker.       *)
(*                                                                         *)
(* Strings that the program takes apart (status options, dates written to  *)
(* the sheet) are sequences of one-character strings, so that `in`, split, *)
(* strip, int and strftime are computed the way Python computes them.      *)
(* Names that are only compared (groups, members, incident numbers) are    *)
(* plain strings.                                                          *)
(***************************************************************************)
EXTENDS Integers, Sequences, FiniteSets, TLC

\* ------------------------------------------------------------------ bounds

\* Largest |N| of the generated "No update for N days" inputs of SpecScore.
MaxDays == 6

\* Most data rows the worksheet holds (saving stops there).
MaxRows == 3

\* Most user interactions (page open, widget edits, button clicks) followed
\* in one session.
MaxClicks == 4

\* ------------------------------------------------------- Python str helpers

Digits == <<"0", "1", "2", "3", "4", "5", "6", "7", "8", "9">>

IsDigit(c) == \E i \in 1..10 : Digits[i] = c

DigitVal(c) == (CHOOSE i \in 1..10 : Digits[i] = c) - 1

\* s[i:i+len(p)] == p, i 1-based
MatchAt(s, p, i) ==
    /\ i >= 1
    /\ i + Len(p) - 1 <= Len(s)
    /\ \A k \in 1..Len(p) : s[i + k - 1] = p[k]

\* str.find, 1-based; 0 when p does not occur in s
PyFind(s, p) ==
    IF \E i \in 1..Len(s) : MatchAt(s, p, i)
    THEN CHOOSE i \in 1..Len(s) :
            /\ MatchAt(s, p, i)
            /\ \A j \in 1..(i - 1) : ~MatchAt(s, p, j)
    ELSE 0

\* `p in s` for a non-empty p
PyIn(p, s) == PyFind(s, p) # 0

\* str.split(sep): the pieces between the non-overlapping occurrences of
\* sep, found left to right
RECURSIVE PySplit(_, _)
PySplit(s, sep) ==
    LET i == PyFind(s, sep) IN
    IF i = 0
    THEN <<s>>
    ELSE <<SubSeq(s, 1, i - 1)>> \o PySplit(SubSeq(s, i + Len(sep), Len(s)), sep)

\* str.strip() on the model's alphabet, whose only whitespace is " "
RECURSIVE PyLStrip(_)
PyLStrip(s) ==
    IF s # <<>> /\ Head(s) = " " THEN PyLStrip(Tail(s)) ELSE s

RECURSIVE PyRStrip(_)
PyRStrip(s) ==
    IF s # <<>> /\ s[Len(s)] = " " THEN PyRStrip(SubSeq(s, 1, Len(s) - 1)) ELSE s

PyStrip(s) == PyRStrip(PyLStrip(s))

RECURSIVE DigitsVal(_)
DigitsVal(s) ==
    IF s = <<>> THEN 0
    ELSE 10 * DigitsVal(SubSeq(s, 1, Len(s) - 1)) + DigitVal(s[Len(s)])

AllDigits(s) == s # <<>> /\ \A k \in 1..Len(s) : IsDigit(s[k])

\* int(s): [ok |-> FALSE] stands for ValueError
PyInt(s0) ==
    LET s == PyStrip(s0) IN
    IF s # <<>> /\ Head(s) \in {"-", "+"}
    THEN IF AllDigits(Tail(s))
         THEN [ok |-> TRUE,
               val |-> IF Head(s) = "-" THEN 0 - DigitsVal(Tail(s))
                       ELSE DigitsVal(Tail(s))]
         ELSE [ok |-> FALSE, val |-> 0]
    ELSE IF AllDigits(s)
         THEN [ok |-> TRUE, val |-> DigitsVal(s)]
         ELSE [ok |-> FALSE, val |-> 0]

\* ------------------------------------------------------------ string literals

sNormal == <<"N", "o", "r", "m", "a", "l">>
sBlank == <<"B", "l", "a", "n", "k">>
sUpToDate == <<"U", "p", " ", "t", "o", " ", "d", "a", "t", "e", " ",
               "(", "0", " ", "d", "a", "y", "s", ")">>
sNoUpdateFor == <<"N", "o", " ", "u", "p", "d", "a", "t", "e", " ", "f", "o", "r">>
sFor == <<"f", "o", "r">>
sDays == <<"d", "a", "y", "s">>

NoUpdate(n) == sNoUpdateFor \o <<" ", Digits[n + 1], " ">> \o sDays

FOLLOWUP_OPTIONS ==
    << sNormal, sBlank, sUpToDate,
       NoUpdate(2), NoUpdate(3), NoUpdate(4), NoUpdate(5) >>

\* ------------------------------------------------------------ scoring

parse_days_blank0(option) ==
    IF option = sNormal THEN 0
    ELSE IF PyIn(sNoUpdateFor, option)
         THEN LET r == PyInt(PySplit(PySplit(option, sFor)[2], sDays)[1])
              IN IF r.ok THEN r.val ELSE 0
         ELSE 0

\* parse_days: the try block catches every exception of the split/strip/int
\* chain, so the function is total on strings.
parse_days(option) ==
    IF option = sNormal THEN 0
    ELSE IF option = sBlank THEN 4
    ELSE IF PyIn(sNoUpdateFor, option)
         THEN LET pieces == PySplit(option, sFor)
                  r == IF Len(pieces) >= 2
                       THEN PyInt(PySplit(pieces[2], sDays)[1])
                       ELSE [ok |-> FALSE, val |-> 0]
              IN IF r.ok THEN r.val ELSE 0
         ELSE 0

PyMax(a, b) == IF a >= b THEN a ELSE b

calc_score_avg(tech_option, custom_option) ==
    LET days_tech == parse_days(tech_option)
        days_custom == parse_days(custom_option)
    IN 0 - ((days_tech + days_custom) \div 2)

calc_score_min(tech_option, custom_option) ==
    LET days_tech == parse_days(tech_option)
        days_custom == parse_days(custom_option)
    IN 0 - (IF days_tech <= days_custom THEN days_tech ELSE days_custom)

calc_score(tech_option, custom_option) ==
    LET days_tech == parse_days(tech_option)
        days_custom == parse_days(custom_option)
        max_days == PyMax(days_tech, days_custom)
    IN 0 - max_days

\* ------------------------------------------------------------ roster

GROUPS ==
    << [name |-> "The First Group", members |-> <<"Desiree", "Jessica Dollins">>],
       [name |-> "The Second Group",
        members |-> <<"Christie Debrah", "Michelly Maldonado">>],
       [name |-> "The Third Group", members |-> <<"Abbigale Lee">>],
       [name |-> "The FOURTH Group", members |-> <<"Kris Ramsey">>] >>

\* The per-member forms in the order the page renders them (group by group,
\* member by member): form f belongs to Roster[f].
RECURSIVE FormsOf(_)
FormsOf(g) ==
    IF g > Len(GROUPS) THEN <<>>
    ELSE [i \in 1..Len(GROUPS[g].members) |->
             [group |-> GROUPS[g].name, member |-> GROUPS[g].members[i]]]
         \o FormsOf(g + 1)

Roster == FormsOf(1)

NForms == Len(Roster)

\* ------------------------------------------------------------ dates

\* datetime.date values
MkDate(y, m, d) == [year |-> y, month |-> m, day |-> d]

\* pandas Timestamp (midnight of a parsed date) and NaT
MkTimestamp(y, m, d) == [year |-> y, month |-> m, day |-> d, hour |-> 0]

NaT == [year |-> 0, month |-> 0, day |-> 0, hour |-> 0]

\* Timestamp.date()
TsDate(ts) == MkDate(ts.year, ts.month, ts.day)

Pad2(n) == <<Digits[(n \div 10) + 1], Digits[(n % 10) + 1]>>

Pad4(n) == Pad2(n \div 100) \o Pad2(n % 100)

\* d.strftime("%Y-%m-%d")
strftime(d) == Pad4(d.year) \o <<"-">> \o Pad2(d.month) \o <<"-">> \o Pad2(d.day)

\* pd.to_datetime(cell, errors="coerce") on a "YYYY-MM-DD" cell; anything else
\* the sheet could hold in that column is coerced to NaT
to_datetime(cell) ==
    IF /\ Len(cell) = 10
       /\ cell[5] = "-"
       /\ cell[8] = "-"
       /\ AllDigits(SubSeq(cell, 1, 4))
       /\ AllDigits(SubSeq(cell, 6, 7))
       /\ AllDigits(SubSeq(cell, 9, 10))
       /\ DigitsVal(SubSeq(cell, 6, 7)) \in 1..12
       /\ DigitsVal(SubSeq(cell, 9, 10)) \in 1..31
    THEN MkTimestamp(DigitsVal(SubSeq(cell, 1, 4)),
                     DigitsVal(SubSeq(cell, 6, 7)),
                     DigitsVal(SubSeq(cell, 9, 10)))
    ELSE NaT

\* ------------------------------------------------------------ the worksheet

\* Row 1 of worksheet "log"
HEADER ==
    <<"date", "group", "member", "incident_number",
      "tech_followup", "custom_followup", "score">>

\* ws.get_all_records(): rows 2.. of the worksheet, keyed by the header row
get_all_records(w) ==
    [i \in 1..(Len(w) - 1) |->
        [date |-> w[i + 1][1], group |-> w[i + 1][2], member |-> w[i + 1][3],
         incident_number |-> w[i + 1][4], tech_followup |-> w[i + 1][5],
         custom_followup |-> w[i + 1][6], score |-> w[i + 1][7]]]

\* ws.delete_rows(sheet_row): the row is removed and the rows below move up;
\* a row below the last stored one is a blank grid row
delete_rows(w, sheet_row) ==
    IF sheet_row \in 1..Len(w)
    THEN SubSeq(w, 1, sheet_row - 1) \o SubSeq(w, sheet_row + 1, Len(w))
    ELSE w

\* The body of load_log once the cache misses: read, fall back to no records
\* when the read raises, build the frame (index 0..n-1) and parse the dates.
load_log_body(w, readable) ==
    LET records == IF readable THEN get_all_records(w) ELSE <<>>
    IN [i \in 1..Len(records) |->
           [idx |-> i - 1,
            date |-> to_datetime(records[i].date),
            group |-> records[i].group,
            member |-> records[i].member,
            incident_number |-> records[i].incident_number,
            tech_followup |-> records[i].tech_followup,
            custom_followup |-> records[i].custom_followup,
            score |-> records[i].score]]

\* @st.cache_data load_log(): <<>> is the empty cache, <<df>> a cached frame.
\* The function takes no argument and the program never clears the cache, so
\* the first frame computed is what every later call returns.
load_log(cache, w, readable) ==
    IF cache # <<>> THEN cache ELSE <<load_log_body(w, readable)>>

\* The row save_single_entry builds from an entry
EntryRow(entry) ==
    <<strftime(entry.date), entry.group, entry.member, entry.incident_number,
      entry.tech_followup, entry.custom_followup, entry.score>>

SameKey(r, q) == r[1] = q[1] /\ r[2] = q[2] /\ r[3] = q[3]

save_single_entry_upsert(w, entry) ==
    LET row == EntryRow(entry) IN
    IF \E i \in 2..Len(w) : SameKey(w[i], row)
    THEN [i \in 1..Len(w) |-> IF i >= 2 /\ SameKey(w[i], row) THEN row ELSE w[i]]
    ELSE Append(w, row)

\* save_single_entry: ws.append_row(row)
save_single_entry(w, entry) == Append(w, EntryRow(entry))

\* delete_record when delete_rows does not raise
delete_record(w, idx_in_df) ==
    LET sheet_row == idx_in_df + 2 IN delete_rows(w, sheet_row)

\* ------------------------------------------------------------ detail view

ALL_MEMBERS_LABEL == "All members"

\* unique(): the distinct values in order of first appearance
RECURSIVE Unique(_)
Unique(s) ==
    IF s = <<>> THEN <<>>
    ELSE LET rest == Unique(SubSeq(s, 1, Len(s) - 1)) IN
         IF \E i \in 1..Len(rest) : rest[i] = s[Len(s)]
         THEN rest ELSE Append(rest, s[Len(s)])

group_options(df) == {df[i].group : i \in 1..Len(df)}

\* `if not selected_groups: selected_groups = group_options`
EffectiveGroups(df, selGroups) ==
    IF selGroups = {} THEN group_options(df) ELSE selGroups

df_group_filtered(df, selGroups) ==
    LET InGroups(r) == r.group \in EffectiveGroups(df, selGroups)
    IN SelectSeq(df, InGroups)

member_options(df, selGroups) ==
    LET f == df_group_filtered(df, selGroups)
    IN Unique([i \in 1..Len(f) |-> f[i].member])

df_for_detail(df, selGroups, selMember) ==
    LET f == df_group_filtered(df, selGroups)
        IsMember(r) == r.member = selMember
    IN IF selMember = ALL_MEMBERS_LABEL THEN f ELSE SelectSeq(f, IsMember)

DateKey(ts) == ts.year * 10000 + ts.month * 100 + ts.day

\* a comes before b under sort_values(by=[date, __idx], ascending=[False,
\* False], na_position="last")
Before(a, b) ==
    IF a.date = NaT THEN b.date = NaT /\ a.idx > b.idx
    ELSE IF b.date = NaT THEN TRUE
    ELSE \/ DateKey(a.date) > DateKey(b.date)
         \/ DateKey(a.date) = DateKey(b.date) /\ a.idx > b.idx

RECURSIVE SortRows(_)
SortRows(rows) ==
    IF rows = <<>> THEN <<>>
    ELSE LET k == CHOOSE i \in 1..Len(rows) :
                     \A j \in 1..Len(rows) : j = i \/ Before(rows[i], rows[j])
         IN <<rows[k]>> \o SortRows(SubSeq(rows, 1, k - 1) \o SubSeq(rows, k + 1, Len(rows)))

display_df_reset_index(df, selGroups, selMember) ==
    LET d == df_for_detail(df, selGroups, selMember)
    IN SortRows([i \in 1..Len(d) |-> [d[i] EXCEPT !.idx = i - 1]])

\* display_df: __idx is the frame's index, which boolean filtering keeps
display_df(df, selGroups, selMember) ==
    SortRows(df_for_detail(df, selGroups, selMember))

\* ------------------------------------------------------------ state

VARIABLES
    ws,               \* worksheet "log": the header row, then the data rows
    load_log_cache,   \* st.cache_data entry of load_log: <<>> or <<df>>
    record_date,      \* the date_input widget
    incident,         \* st.session_state[incident_key], per form
    tech,             \* st.session_state[tech_key], per form
    custom,           \* st.session_state[custom_key], per form
    reset,            \* st.session_state[reset_key], per form
    selected_groups,  \* the group multiselect of the detail view
    member_selected,  \* the member selectbox of the detail view
    formsShown,       \* how many member forms the last run rendered
    completed,        \* the last run reached the end of the script
    display,          \* the detail rows (with delete buttons) on the page
    last,             \* what the last interaction was and what it showed
    clicks,           \* interactions so far
    tech_option,      \* SpecScore: the arguments and results of the
    tech_option2,     \*   scoring functions
    custom_option,
    scored

dashVars ==
    <<ws, load_log_cache, record_date, incident, tech, custom, reset,
      selected_groups, member_selected, formsShown, completed, display, last,
      clicks>>

scoreVars == <<tech_option, tech_option2, custom_option, scored>>

vars == <<dashVars, scoreVars>>

\* ------------------------------------------------------------ inputs

Today == MkDate(2025, 11, 5)

Dates == {MkDate(2025, 11, 4), Today}

\* The forms the modelled user fills in: one member of each of two groups.
ActiveForms == {2, 3}

\* The options the modelled user picks in the two selectboxes.
UserOptions == {sNormal, sBlank, NoUpdate(3)}

Incidents == {"", "W102025-00123"}

\* lines 358-375: the score shown under the form and the entry the save
\* button builds from the same widget values
MakeEntry(d, f, inc, tech_follow, custom_follow) ==
    [date |-> d,
     group |-> Roster[f].group,
     member |-> Roster[f].member,
     incident_number |-> inc,
     tech_followup |-> tech_follow,
     custom_followup |-> custom_follow,
     score |-> calc_score(tech_follow, custom_follow)]

\* Rows an earlier process of the same program saved, and the worksheets
\* the process may find when it starts: a new one, and three with rows of
\* two groups and two dates.
SeedA == EntryRow(MakeEntry(MkDate(2025, 11, 4), 2, "W102025-00123", sBlank, sNormal))

SeedB == EntryRow(MakeEntry(Today, 3, "", NoUpdate(3), NoUpdate(5)))

SeedC == EntryRow(MakeEntry(Today, 2, "", sNormal, sNormal))

SeedSheets ==
    { <<HEADER>>,
      <<HEADER, SeedC>>,
      <<HEADER, SeedA, SeedB>>,
      <<HEADER, SeedB, SeedA, SeedC>> }

NoEntry ==
    [date |-> MkDate(0, 0, 0), group |-> "", member |-> "", incident_number |-> "",
     tech_followup |-> <<>>, custom_followup |-> <<>>, score |-> 0]

NoRow ==
    [idx |-> 0 - 1, date |-> NaT, group |-> "", member |-> "", incident_number |-> "",
     tech_followup |-> <<>>, custom_followup |-> <<>>, score |-> 0]

Last(op, ok, readable, idx, entry, clicked, msgs) ==
    [op |-> op, ok |-> ok, readable |-> readable, idx |-> idx, entry |-> entry,
     clicked |-> clicked, msgs |-> msgs]

DashInit ==
    /\ ws \in SeedSheets
    /\ load_log_cache = <<>>
    /\ record_date = Today
    /\ incident = [f \in 1..NForms |-> ""]
    /\ tech = [f \in 1..NForms |-> FOLLOWUP_OPTIONS[1]]
    /\ custom = [f \in 1..NForms |-> FOLLOWUP_OPTIONS[1]]
    /\ reset = [f \in 1..NForms |-> FALSE]
    /\ selected_groups = {}
    /\ member_selected = ALL_MEMBERS_LABEL
    /\ formsShown = 0
    /\ completed = FALSE
    /\ display = <<>>
    /\ last = Last("none", TRUE, TRUE, 0 - 1, NoEntry, NoRow, {})
    /\ clicks = 0

ScoreIdle ==
    /\ tech_option = <<>>
    /\ tech_option2 = <<>>
    /\ custom_option = <<>>
    /\ scored = [step |-> "idle"]

Init == DashInit /\ ScoreIdle

\* ------------------------------------------------------------ one script run

\* lines 333-338 for the forms 1..upTo a run renders: a form whose reset flag
\* is set gets its inputs back to the defaults and the flag cleared
ResetForms(upTo, inc, tec, cus, rst) ==
    [incident |-> [f \in 1..NForms |-> IF f <= upTo /\ rst[f] THEN "" ELSE inc[f]],
     tech |-> [f \in 1..NForms |->
                  IF f <= upTo /\ rst[f] THEN FOLLOWUP_OPTIONS[1] ELSE tec[f]],
     custom |-> [f \in 1..NForms |->
                  IF f <= upTo /\ rst[f] THEN FOLLOWUP_OPTIONS[1] ELSE cus[f]],
     reset |-> [f \in 1..NForms |-> IF f <= upTo THEN FALSE ELSE rst[f]]]

\* The detail rows of a run that reaches line 432 with frame df
DetailRows(df, selGroups, selMember) ==
    IF df = <<>> THEN <<>> ELSE display_df(df, selGroups, selMember)

\* A run no button stops: load_log (207), every form (324-383), load_log
\* (391), the detail view, load_log (516).
RunToEnd(cache, w, readable, inc, tec, cus, rst, selGroups, selMember) ==
    LET cache1 == load_log(cache, w, readable)
        s == ResetForms(NForms, inc, tec, cus, rst)
    IN /\ load_log_cache' = cache1
       /\ incident' = s.incident
       /\ tech' = s.tech
       /\ custom' = s.custom
       /\ reset' = s.reset
       /\ selected_groups' = selGroups
       /\ member_selected' = selMember
       /\ formsShown' = NForms
       /\ completed' = TRUE
       /\ display' = DetailRows(cache1[1], selGroups, selMember)

Click == clicks < MaxClicks /\ clicks' = clicks + 1

\* The session's first run. The multiselect starts at its default, every
\* group of the loaded frame.
OpenPage ==
    \E readable \in BOOLEAN :
        /\ last.op = "none"
        /\ Click
        /\ RunToEnd(load_log_cache, ws, readable, incident, tech, custom, reset,
                    group_options(load_log(load_log_cache, ws, readable)[1]),
                    ALL_MEMBERS_LABEL)
        /\ last' = Last("open", TRUE, readable, 0 - 1, NoEntry, NoRow,
                        IF readable THEN {} ELSE {"read_error"})
        /\ UNCHANGED <<ws, record_date, scoreVars>>

\* A widget edit reruns the script with the new value. From the second run
\* on load_log returns its cached frame without reading the worksheet, so
\* whether a read would succeed no longer decides anything: the runs after
\* the first are modelled with a readable backend.
Edited ==
    /\ last' = Last("edit", TRUE, TRUE, 0 - 1, NoEntry, NoRow, {})
    /\ UNCHANGED <<ws, scoreVars>>

SetDate ==
    \E d \in Dates :
        /\ formsShown > 0 \/ completed
        /\ d # record_date
        /\ Click
        /\ record_date' = d
        /\ RunToEnd(load_log_cache, ws, TRUE, incident, tech, custom, reset,
                    selected_groups, member_selected)
        /\ Edited

SetIncident ==
    \E f \in ActiveForms, v \in Incidents :
        /\ f <= formsShown
        /\ v # incident[f]
        /\ Click
        /\ RunToEnd(load_log_cache, ws, TRUE, [incident EXCEPT ![f] = v],
                    tech, custom, reset, selected_groups, member_selected)
        /\ Edited
        /\ UNCHANGED record_date

SetTech ==
    \E f \in ActiveForms, o \in UserOptions :
        /\ f <= formsShown
        /\ o # tech[f]
        /\ Click
        /\ RunToEnd(load_log_cache, ws, TRUE, incident,
                    [tech EXCEPT ![f] = o], custom, reset,
                    selected_groups, member_selected)
        /\ Edited
        /\ UNCHANGED record_date

SetCustom ==
    \E f \in ActiveForms, o \in UserOptions :
        /\ f <= formsShown
        /\ o # custom[f]
        /\ Click
        /\ RunToEnd(load_log_cache, ws, TRUE, incident, tech,
                    [custom EXCEPT ![f] = o], reset,
                    selected_groups, member_selected)
        /\ Edited
        /\ UNCHANGED record_date

\* The filters exist on the page when the last run got to them with a
\* non-empty frame (line 393).
FiltersShown == completed /\ load_log_cache # <<>> /\ load_log_cache[1] # <<>>

\* A new choice of groups; the member selectbox is rebuilt, back at "All
\* members", when its option list changes.
SetGroups ==
    /\ FiltersShown
    /\ \E G \in SUBSET group_options(load_log_cache[1]) :
        /\ G # selected_groups
        /\ Click
        /\ RunToEnd(load_log_cache, ws, TRUE, incident, tech, custom, reset, G,
                    IF member_options(load_log_cache[1], G)
                         = member_options(load_log_cache[1], selected_groups)
                    THEN member_selected ELSE ALL_MEMBERS_LABEL)
        /\ Edited
        /\ UNCHANGED record_date

SetMember ==
    /\ FiltersShown
    /\ \E i \in 0..Len(member_options(load_log_cache[1], selected_groups)) :
        LET opts == member_options(load_log_cache[1], selected_groups)
            m == IF i = 0 THEN ALL_MEMBERS_LABEL ELSE opts[i]
        IN /\ m # member_selected
           /\ Click
           /\ RunToEnd(load_log_cache, ws, TRUE, incident, tech, custom, reset,
                       selected_groups, m)
           /\ Edited
           /\ UNCHANGED record_date

\* ------------------------------------------------------------ the buttons

\* The save button of form f (lines 366-381). The run renders the forms up
\* to f, builds the entry from the widget values and calls
\* save_single_entry. append_row raising is not caught: the exception leaves
\* the script, which ends there with the forms after f and the detail view
\* not rendered (the session state keeps its values). Otherwise the success
\* message is written,
\* the reset flag of the form is set and st.rerun() starts a run to the end.
SaveClick ==
    \E f \in ActiveForms, appendOk \in BOOLEAN :
        LET cache1 == load_log(load_log_cache, ws, TRUE)
            s == ResetForms(f, incident, tech, custom, reset)
            entry == MakeEntry(record_date, f, s.incident[f], s.tech[f], s.custom[f])
        IN /\ f <= formsShown
           /\ Len(ws) - 1 < MaxRows
           /\ Click
           /\ IF appendOk
              THEN /\ ws' = save_single_entry(ws, entry)
                   /\ RunToEnd(cache1, ws', TRUE, s.incident, s.tech, s.custom,
                               [s.reset EXCEPT ![f] = TRUE],
                               selected_groups, member_selected)
                   /\ last' = Last("save", TRUE, TRUE, 0 - 1, entry, NoRow,
                                   {"saved"})
              ELSE /\ ws' = ws
                   /\ load_log_cache' = cache1
                   /\ incident' = s.incident
                   /\ tech' = s.tech
                   /\ custom' = s.custom
                   /\ reset' = s.reset
                   /\ formsShown' = f
                   /\ completed' = FALSE
                   /\ display' = <<>>
                   /\ last' = Last("save", FALSE, TRUE, 0 - 1, entry, NoRow,
                                   {"exception"})
                   /\ UNCHANGED <<selected_groups, member_selected>>
           /\ UNCHANGED <<record_date, scoreVars>>

\* The delete button of the k-th detail row (lines 469-475): rec_idx is the
\* row's __idx. delete_record catches what delete_rows raises and warns;
\* the handler writes the success message either way and reruns.
DeleteClick ==
    \E k \in 1..Len(display), deleteOk \in BOOLEAN :
        LET rec_idx == display[k].idx
        IN /\ completed
           /\ Click
           /\ ws' = IF deleteOk THEN delete_record(ws, rec_idx) ELSE ws
           /\ RunToEnd(load_log_cache, ws', TRUE, incident, tech, custom, reset,
                       selected_groups, member_selected)
           /\ last' = Last("delete", deleteOk, TRUE, rec_idx, NoEntry, display[k],
                           IF deleteOk THEN {"deleted"}
                           ELSE {"delete_warning", "deleted"})
           /\ UNCHANGED <<record_date, scoreVars>>

Next ==
    \/ OpenPage
    \/ SetDate
    \/ SetIncident
    \/ SetTech
    \/ SetCustom
    \/ SetGroups
    \/ SetMember
    \/ SaveClick
    \/ DeleteClick

Spec == Init /\ [][Next]_vars

\* ------------------------------------------------------------ the scoring
\* functions on their own: SpecScore draws the arguments and applies them

\* str(n)
RECURSIVE NatChars(_)
NatChars(n) ==
    IF n < 10 THEN <<Digits[n + 1]>>
    ELSE NatChars(n \div 10) \o <<Digits[(n % 10) + 1]>>

IntChars(n) == IF n < 0 THEN <<"-">> \o NatChars(0 - n) ELSE NatChars(n)

NoUpdateText(mid) == sNoUpdateFor \o <<" ">> \o mid \o <<" ">> \o sDays

Vocabulary == {FOLLOWUP_OPTIONS[i] : i \in 1..Len(FOLLOWUP_OPTIONS)}

\* "No update for N days" for every N of the bound, negative ones included
NoUpdateFamily == {NoUpdateText(IntChars(n)) : n \in (0 - MaxDays)..MaxDays}

\* Strings that do not hold "No update for", or hold no integer where the
\* day count belongs
NoNumberStrings ==
    { <<>>,
      <<"n", "o", "r", "m", "a", "l">>,
      sBlank \o <<" ">>,
      <<"n", "o", " ", "u", "p", "d", "a", "t", "e", " ", "f", "o", "r", " ", "3", " ">>
          \o sDays,
      sFor \o NoUpdate(3),
      NoUpdateText(<<"x">>),
      NoUpdateText(<<>>),
      NoUpdateText(<<"-">>),
      NoUpdateText(<<"3", "x">>),
      NoUpdateText(<<"3", " ", "4">>),
      NoUpdateText(<<"-", "-", "3">>) }

\* Strings outside the vocabulary that still hold the integer 3 between the
\* first "for" and the next "days"
ThreeStrings ==
    { NoUpdateText(<<"+", "3">>),
      sNoUpdateFor \o <<" ", "3">>,
      sNoUpdateFor \o <<"3">> \o sDays,
      NoUpdate(3) \o <<" ">> \o sFor \o <<" ", "9", " ">> \o sDays }

TestStrings == Vocabulary \cup NoUpdateFamily \cup NoNumberStrings \cup ThreeStrings

NotScored == [step |-> "none", days_tech |-> 0, days_tech2 |-> 0, days_custom |-> 0,
              s_tc |-> 0, s_t2c |-> 0, s_ct |-> 0, s_ct2 |-> 0]

ScoreInit ==
    /\ DashInit
    /\ ws = <<HEADER>>
    /\ tech_option \in TestStrings
    /\ tech_option2 \in Vocabulary
    /\ custom_option \in Vocabulary
    /\ scored = NotScored

CallParseDays ==
    /\ scored.step = "none"
    /\ scored' = [scored EXCEPT !.step = "days",
                                !.days_tech = parse_days(tech_option),
                                !.days_tech2 = parse_days(tech_option2),
                                !.days_custom = parse_days(custom_option)]
    /\ UNCHANGED <<dashVars, tech_option, tech_option2, custom_option>>

CallCalcScore ==
    /\ scored.step = "days"
    /\ scored' = [scored EXCEPT !.step = "score",
                                !.s_tc = calc_score(tech_option, custom_option),
                                !.s_t2c = calc_score(tech_option2, custom_option),
                                !.s_ct = calc_score(custom_option, tech_option),
                                !.s_ct2 = calc_score(custom_option, tech_option2)]
    /\ UNCHANGED <<dashVars, tech_option, tech_option2, custom_option>>

ScoreNext == CallParseDays \/ CallCalcScore

SpecScore == ScoreInit /\ [][ScoreNext]_vars

\* ------------------------------------------------------------ C4, C5

\* The day count of each status code, in the order of FOLLOWUP_OPTIONS:
\* Normal, Blank, Up to date (0 days), No update for 2/3/4/5 days.
DaysTable == <<0, 4, 0, 2, 3, 4, 5>>

TableDays(opt) == DaysTable[CHOOSE i \in 1..Len(FOLLOWUP_OPTIONS) : FOLLOWUP_OPTIONS[i] = opt]

\* C4 as claimed: parse_days returns the table value for every status code of
\* the vocabulary and 0 for every string that is not in the vocabulary,
\* "No update for N days" with N outside 2..5 or negative included.
C4_OutOfVocabularyIsZero ==
    scored.step # "none" =>
        /\ tech_option \in Vocabulary => scored.days_tech = TableDays(tech_option)
        /\ tech_option \notin Vocabulary => scored.days_tech = 0

\* C4 as amended: parse_days returns the table value for every status code of
\* the vocabulary; it returns 0 for a string that does not hold "No update
\* for", and for one whose text after the first "for", cut at the next "for"
\* and then at the first "days", is no integer for int(); and for "No update
\* for N days" it returns N for every integer N, negative or above 5
\* included, as for any other string holding N in that place.
C4_ParseDaysTable ==
    scored.step # "none" =>
        /\ tech_option \in Vocabulary => scored.days_tech = TableDays(tech_option)
        /\ \A n \in (0 - MaxDays)..MaxDays :
               tech_option = NoUpdateText(IntChars(n)) => scored.days_tech = n
        /\ tech_option \in NoNumberStrings => scored.days_tech = 0
        /\ tech_option \in ThreeStrings => scored.days_tech = 3

\* parse_days has run on "No update for -2 days" and returned -2.
C4_Witness ==
    /\ scored.step = "days"
    /\ tech_option = NoUpdateText(<<"-", "2">>)
    /\ scored.days_tech = 0 - 2

\* C5 as claimed: over the vocabulary, a worse status on either channel
\* strictly lowers the score, whatever the other channel holds.
C5_StrictlyMonotonic ==
    (scored.step = "score" /\ tech_option \in Vocabulary
        /\ TableDays(tech_option2) > TableDays(tech_option)) =>
        /\ scored.s_t2c < scored.s_tc
        /\ scored.s_ct2 < scored.s_ct

\* C5 as amended: over the vocabulary calc_score is the negative of the
\* larger of the two day counts; a worse status on either channel never
\* raises the score, and lowers it exactly when its day count is above the
\* other channel's.
C5_WorseChannelDominates ==
    (scored.step = "score" /\ tech_option \in Vocabulary) =>
        LET da == TableDays(tech_option)
            da2 == TableDays(tech_option2)
            db == TableDays(custom_option)
        IN /\ scored.s_tc = 0 - (IF da >= db THEN da ELSE db)
           /\ scored.s_ct = scored.s_tc
           /\ scored.s_t2c = 0 - (IF da2 >= db THEN da2 ELSE db)
           /\ scored.s_ct2 = scored.s_t2c
           /\ da2 > da =>
                 /\ scored.s_t2c <= scored.s_tc
                 /\ scored.s_ct2 <= scored.s_ct
                 /\ (scored.s_t2c < scored.s_tc) <=> (da2 > db)
                 /\ (scored.s_ct2 < scored.s_ct) <=> (da2 > db)

\* Blank against Normal beside "No update for 5 days": the worse status
\* leaves the score at -5.
C5_Witness ==
    /\ scored.step = "score"
    /\ tech_option = sNormal
    /\ tech_option2 = sBlank
    /\ custom_option = NoUpdate(5)
    /\ scored.s_tc = 0 - 5
    /\ scored.s_t2c = 0 - 5

\* ------------------------------------------------------------ reading the state

\* What the next call of load_log() returns
NextLoad == load_log(load_log_cache, ws, TRUE)[1]

\* The frame a read of the worksheet as it is now gives
SheetFrame == load_log_body(ws, TRUE)

\* A frame row without its index
Content(r) ==
    <<r.date, r.group, r.member, r.incident_number, r.tech_followup,
      r.custom_followup, r.score>>

ContentSeq(df) == [i \in 1..Len(df) |-> Content(df[i])]

RemoveAt(q, j) == SubSeq(q, 1, j - 1) \o SubSeq(q, j + 1, Len(q))

\* Frame row r shows entry e (the date at calendar-date granularity)
ShowsEntry(r, e) ==
    /\ r.date # NaT
    /\ TsDate(r.date) = e.date
    /\ r.group = e.group
    /\ r.member = e.member
    /\ r.incident_number = e.incident_number
    /\ r.tech_followup = e.tech_followup
    /\ r.custom_followup = e.custom_followup
    /\ r.score = e.score

\* The displayed data equals the current sheet contents
Fresh == load_log_cache # <<>> /\ load_log_cache[1] = SheetFrame

\* ------------------------------------------------------------ C1

\* C1: after a successful save_single_entry(e) the next load_log() returns a
\* row with e's fields, and after a successful delete_record(i) of a stored
\* row the next load_log() no longer returns that row, also when load_log()
\* had been called before.
C1_RoundTrip ==
    /\ (last.op = "save" /\ last.ok) =>
           \E i \in 1..Len(NextLoad) : ShowsEntry(NextLoad[i], last.entry)
    /\ (last.op = "delete" /\ last.ok) =>
           ~ \E i \in 1..Len(NextLoad) : NextLoad[i] = last.clicked

\* ------------------------------------------------------------ C2

\* C2: a delete of an identifier that denotes no stored row leaves the
\* stored rows as they were and does not tell the user the record was
\* deleted.
C2_DeleteMissingReportsFailure ==
    [][ (last'.op = "delete" /\ last'.idx + 2 > Len(ws)) =>
            (ws' = ws /\ "deleted" \notin last'.msgs) ]_vars

\* ------------------------------------------------------------ C3

\* C3: after a delete or an append and the rerun that follows, the
\* identifier on each displayed row's delete button is the row's current
\* position in the sheet.
C3_IdentifiersCurrent ==
    (last.op \in {"save", "delete"} /\ completed) =>
        \A k \in 1..Len(display) :
            /\ display[k].idx + 1 <= Len(SheetFrame)
            /\ SheetFrame[display[k].idx + 1] = display[k]

\* ------------------------------------------------------------ C6

\* C6: a backend exception during append, delete or load is caught, shown
\* as a warning, and the run goes on to its end; a failed append is not
\* reported as saved.
C6_BackendErrorsCaught ==
    /\ (last.op = "save" /\ ~last.ok) =>
           /\ completed
           /\ "exception" \notin last.msgs
           /\ "saved" \notin last.msgs
    /\ (last.op = "delete" /\ ~last.ok) =>
           /\ completed
           /\ "delete_warning" \in last.msgs
    /\ (last.op = "open" /\ ~last.readable) =>
           /\ completed
           /\ "read_error" \in last.msgs

\* ------------------------------------------------------------ C7

\* C7: load_log returns the empty frame when the sheet holds no data rows or
\* the read raises, the page runs to its end on it, and once the backend
\* holds rows and is readable a later load_log returns those rows.
C7_LoadRecovers ==
    /\ (last.op = "open" /\ (~last.readable \/ Len(ws) = 1)) =>
           (completed /\ load_log_cache = <<(<<>>)>>)
    /\ (last.op \notin {"none", "open"} /\ completed /\ Len(ws) > 1) =>
           NextLoad = SheetFrame

\* ------------------------------------------------------------ C8

\* Every data row of w2 is a data row of w1 in the same order, with at most
\* the rows from position j on moved up by one
RowRemoved(w1, w2) == \E j \in 2..Len(w1) : w2 = RemoveAt(w1, j)

\* C8: a successful save adds exactly one row, built from the form's values,
\* at the end of the sheet and leaves the rows before it as they were, also
\* when a row of the same date, group and member is stored already; and no
\* step changes a stored row in place: a step leaves the sheet alone, adds
\* one row at the end or removes one row.
C8_SaveAppendsOneRow ==
    [][ /\ (last'.op = "save" /\ last'.ok) =>
              \E f \in 1..NForms :
                  ws' = Append(ws, <<strftime(record_date), Roster[f].group,
                                     Roster[f].member, incident[f], tech[f],
                                     custom[f], last'.entry.score>>)
        /\ \/ ws' = ws
           \/ Len(ws') = Len(ws) + 1 /\ SubSeq(ws', 1, Len(ws)) = ws
           \/ RowRemoved(ws, ws') ]_vars

\* A save has just added a row whose date, group and member an earlier row
\* of the sheet has too.
C8_Witness ==
    /\ last.op = "save"
    /\ last.ok
    /\ ws[Len(ws)] = EntryRow(last.entry)
    /\ \E i \in 2..(Len(ws) - 1) : SameKey(ws[i], ws[Len(ws)])

\* ------------------------------------------------------------ C9

InRoster(group, member) ==
    \E g \in 1..Len(GROUPS) :
        /\ GROUPS[g].name = group
        /\ \E i \in 1..Len(GROUPS[g].members) : GROUPS[g].members[i] = member

RowConsistent(row) ==
    /\ row[7] = 0 - (IF TableDays(row[5]) >= TableDays(row[6])
                     THEN TableDays(row[5]) ELSE TableDays(row[6]))
    /\ InRoster(row[2], row[3])

\* C9: every stored row has score = -max(days(tech_followup),
\* days(custom_followup)) for its own two status codes and a member of its
\* own group, after any saves, resets, reruns and deletes; and every row a
\* step leaves in the sheet is a row that was there before or the one row
\* the step appended, so no stored score is recomputed.
C9_ScoreMatchesStatus ==
    /\ [](\A i \in 2..Len(ws) : RowConsistent(ws[i]))
    /\ [][ \A i \in 2..Len(ws') :
              \/ \E j \in 2..Len(ws) : ws'[i] = ws[j]
              \/ i = Len(ws') /\ Len(ws') = Len(ws) + 1 ]_vars

\* A save has stored a row with a penalty, and the form it came from is
\* back at its defaults.
C9_Witness ==
    /\ last.op = "save"
    /\ last.ok
    /\ last.entry.score < 0
    /\ ws[Len(ws)] = EntryRow(last.entry)
    /\ \E f \in 1..NForms :
           /\ Roster[f].member = last.entry.member
           /\ tech[f] = sNormal
           /\ custom[f] = sNormal
           /\ ~reset[f]

\* ------------------------------------------------------------ C10

\* C10: when the displayed data equals the sheet contents, a delete button
\* that succeeds removes exactly the entry of its row under any group
\* filter, member filter and sort: its identifier is the row's position in
\* the unfiltered load, and the sheet row removed is identifier + 2.
C10_DeleteRemovesClickedRow ==
    [][ (last'.op = "delete" /\ last'.ok /\ Fresh) =>
            /\ \E k \in 1..Len(display) : display[k] = last'.clicked
            /\ last'.idx + 1 <= Len(load_log_cache[1])
            /\ Content(load_log_cache[1][last'.idx + 1]) = Content(last'.clicked)
            /\ last'.idx + 2 <= Len(ws)
            /\ Content(SheetFrame[last'.idx + 1]) = Content(last'.clicked)
            /\ ws' = RemoveAt(ws, last'.idx + 2) ]_vars

\* A delete under a member filter has removed a row that was not the first
\* of the sheet: the sheet now holds the loaded rows without the clicked one.
C10_Witness ==
    /\ last.op = "delete"
    /\ last.ok
    /\ member_selected # ALL_MEMBERS_LABEL
    /\ last.idx > 0
    /\ ContentSeq(SheetFrame) = ContentSeq(RemoveAt(load_log_cache[1], last.idx + 1))

====
